---- MODULE Spec2Model ----
(***************************************************************************)
(* Model of youtube_transcript_extractor.py: a Streamlit script whose      *)
(* session state (current video id, caption catalog, extracted rows) is    *)
(* driven by reruns of main(), plus its pure helpers.                      *)
(*                                                                         *)
(* Strings that the code inspects character by character (URLs, video      *)
(* ids, caption text, titles) are sequences of one-character strings.      *)
(* Times are integers counting hundredths of a second.                     *)
(***************************************************************************)
EXTENDS Integers, Sequences, FiniteSets, TLC

VARIABLES
    video_url,              \* value of the st.text_input widget
    current_video_id,       \* st.session_state.current_video_id
    available_transcripts,  \* st.session_state.available_transcripts
    extracted_data,         \* st.session_state.extracted_data
    last_action,            \* which interaction caused the last rerun of main()
    invalidated,            \* last rerun found a new video id while data of the old one was stored
    found,                  \* last rerun showed "Captions found!"
    caps,                   \* last return value of check_available_captions
    query,                  \* outcomes of the caption service's listings in the last rerun
    request,                \* last extraction request: selection and per-track service outcomes
    extract_ret,            \* last return value of extract_transcript
    calls,                  \* calls extract_transcript made to the caption service
    messages,               \* st.info/warning/error/success messages of the last rerun
    downloads,              \* download buttons offered by the last rerun
    url_in,                 \* argument of a direct call of extract_video_id
    vid_out,                \* its return value
    rows_in,                \* argument of a direct call of save_transcript_options
    save_out                \* its return value and the downloads it offered

vars == <<video_url, current_video_id, available_transcripts, extracted_data,
          last_action, invalidated, found, caps, query, request, extract_ret, calls,
          messages, downloads, url_in, vid_out, rows_in, save_out>>

sessionVars == <<video_url, current_video_id, available_transcripts,
                 extracted_data, last_action, invalidated, found, caps, query, request,
                 extract_ret, calls, messages, downloads>>

vidVars == <<url_in, vid_out>>

saveVars == <<rows_in, save_out>>

----------------------------------------------------------------------------
(* Bounds *)

\* longest URL, in pieces of UrlPieces, given to extract_video_id directly
MaxPieces == 4

\* caption entries per track of the caption service
NumEntries == 2

\* longest row list given to save_transcript_options directly
MaxRows == 2

----------------------------------------------------------------------------
(* str operations used by the code *)

\* sep occurs in s at position i
OccursAt(s, sep, i) ==
    /\ i + Len(sep) - 1 <= Len(s)
    /\ SubSeq(s, i, i + Len(sep) - 1) = sep

\* sep in s
Contains(s, sep) == \E i \in 1..Len(s) : OccursAt(s, sep, i)

\* s.find(sep) + 1, for a string that contains sep
FirstIndex(s, sep) ==
    CHOOSE i \in 1..Len(s) :
        /\ OccursAt(s, sep, i)
        /\ \A j \in 1..(i - 1) : ~OccursAt(s, sep, j)

\* s.split(sep): the pieces between the non-overlapping occurrences of sep,
\* scanning from the left
RECURSIVE Split(_, _)
Split(s, sep) ==
    IF ~Contains(s, sep)
    THEN <<s>>
    ELSE LET i == FirstIndex(s, sep)
         IN  <<SubSeq(s, 1, i - 1)>> \o Split(SubSeq(s, i + Len(sep), Len(s)), sep)

\* s.replace(' ', '_')
ReplaceSpaces(s) == [i \in 1..Len(s) |-> IF s[i] = " " THEN "_" ELSE s[i]]

\* s[:n]
Prefix(s, n) == SubSeq(s, 1, IF Len(s) < n THEN Len(s) ELSE n)

\* s.strip(): drop leading and trailing blanks
RECURSIVE LStrip(_)
LStrip(s) == IF s # <<>> /\ s[1] = " " THEN LStrip(Tail(s)) ELSE s

RECURSIVE RStrip(_)
RStrip(s) ==
    IF s # <<>> /\ s[Len(s)] = " " THEN RStrip(SubSeq(s, 1, Len(s) - 1)) ELSE s

Strip(s) == RStrip(LStrip(s))

----------------------------------------------------------------------------
(* extract_video_id *)

V_EQ == <<"v", "=">>

YOUTU_BE == <<"y", "o", "u", "t", "u", ".", "b", "e", "/">>

\* extract_video_id without the cut at '&'
extract_video_id_NoCut(url) ==
    IF Contains(url, V_EQ)
    THEN Split(url, V_EQ)[2]
    ELSE IF Contains(url, YOUTU_BE)
         THEN Split(Split(url, YOUTU_BE)[2], <<"?">>)[1]
         ELSE url

\* The try/except of the source guards indexing that cannot fail: [1] is
\* taken only when the marker occurs, so split yields at least two pieces.
extract_video_id(url) ==
    IF Contains(url, V_EQ)
    THEN Split(Split(url, V_EQ)[2], <<"&">>)[1]
    ELSE IF Contains(url, YOUTU_BE)
         THEN Split(Split(url, YOUTU_BE)[2], <<"?">>)[1]
         ELSE url

----------------------------------------------------------------------------
(* format_time and round(x, 1) *)

Digit(d) == <<"0", "1", "2", "3", "4", "5", "6", "7", "8", "9">>[d + 1]

\* f"{n:02d}" for 0 <= n < 100
Pad2(n) == <<Digit(n \div 10), Digit(n % 10)>>

\* int(x) of a non-negative time
IntSeconds(x) == x \div 100

format_time(seconds) ==
    LET total   == IntSeconds(seconds)
        m0      == total \div 60
        s       == total % 60
        hours   == m0 \div 60
        minutes == m0 % 60
    IN  Pad2(hours) \o <<":">> \o Pad2(minutes) \o <<":">> \o Pad2(s)

\* round(x, 1): to a multiple of a tenth of a second, ties to even (the
\* times of CaptionService are multiples of 0.25 s, exact in binary)
Round1(x) ==
    LET q == x \div 10
        r == x % 10
    IN  IF r < 5 THEN q * 10
        ELSE IF r > 5 THEN (q + 1) * 10
        ELSE IF q % 2 = 0 THEN q * 10 ELSE (q + 1) * 10

----------------------------------------------------------------------------
(* The caption service (youtube_transcript_api), as the code uses it *)

VID_A == <<"A">>

VID_B == <<"B">>

\* a Transcript object; tlang is "" unless it was made by translate()
Transcript(vid, code, name, generated) ==
    [video_id |-> vid, language_code |-> code, language |-> name,
     is_generated |-> generated, tlang |-> ""]

\* what list_transcripts(video_id) iterates over when nothing fails;
\* empty for a video the service does not know (listing then raises)
CaptionService(vid) ==
    IF vid = VID_A
    THEN <<Transcript(VID_A, "en", "English", FALSE),
           Transcript(VID_A, "es", "Spanish", TRUE)>>
    ELSE IF vid = VID_B
         THEN <<Transcript(VID_B, "fr", "French", TRUE)>>
         ELSE <<>>

\* Transcript.translate(code)
Translate(t, code) ==
    [t EXCEPT !.language_code = code, !.language = "English", !.tlang = code]

LangChars(code) ==
    CASE code = "en" -> <<"e", "n">>
      [] code = "es" -> <<"e", "s">>
      [] code = "fr" -> <<"f", "r">>
      [] OTHER       -> <<"?">>

\* the k-th raw caption entry of a transcript; every second entry comes
\* without a 'duration' key
RawEntry(t, k) ==
    LET text == <<" ">> \o t.video_id \o <<":">> \o LangChars(t.language_code)
                \o (IF t.tlang = "" THEN <<>> ELSE <<"<">> \o LangChars(t.tlang))
                \o <<" ", Digit(k), " ">>
        start == 125 * k + (IF t.video_id = VID_A THEN 0 ELSE 5975)
    IN  IF k % 2 = 1
        THEN [start |-> start, duration |-> 125 + 25 * k, text |-> text]
        ELSE [start |-> start, text |-> text]

\* Transcript.fetch() when it succeeds
FetchEntries(t) == [k \in 1..NumEntries |-> RawEntry(t, k)]

\* str(e) of the errors the service raises
NO_ELEMENT == "no element found: line 1, column 0"

DISABLED == "Subtitles are disabled for this video"

NOT_TRANSLATABLE == "The requested language is not translatable"

FetchErrors == {NO_ELEMENT, DISABLED}

\* "no element found" in str(e).lower(), over the messages above
HasNoElementFound(msg) == msg = NO_ELEMENT

\* How the service answers the calls made for one selected track:
\* direct/fallback are "ok" or the message of the error fetch() raises,
\* translate is "ok" or the message of the error translate() raises.
\* An answer to a call that comes after a failed one is never asked for
\* and is left at "ok".
TrackOutcomes ==
    {o \in [direct : {"ok"} \cup FetchErrors,
            translate : {"ok", NOT_TRANSLATABLE},
            fallback : {"ok", DISABLED}] :
        /\ o.direct = "ok" => o.translate = "ok"
        /\ o.translate # "ok" => o.fallback = "ok"
        /\ o.direct = "ok" => o.fallback = "ok"}

\* How the service answers one list_transcripts() and the iteration over
\* its result: listed = the call returned; yielded = tracks iterated before
\* the iteration raised (raised) or finished
ListOutcomes(vid) ==
    LET n == Len(CaptionService(vid))
    IN  {[listed |-> FALSE, yielded |-> 0, raised |-> TRUE]}
        \cup (IF n = 0 THEN {}
              ELSE {[listed |-> TRUE, yielded |-> n, raised |-> FALSE]}
                   \cup {[listed |-> TRUE, yielded |-> k, raised |-> TRUE] :
                           k \in 0..(n - 1)})

NoQuery == [listed |-> FALSE, yielded |-> 0, raised |-> FALSE]

----------------------------------------------------------------------------
(* check_available_captions *)

CaptionInfo(t) ==
    [language |-> t.language, language_code |-> t.language_code,
     type |-> IF t.is_generated THEN "Auto-generated" ELSE "Manual"]

\* the for loop over the tracks the iteration yields
RECURSIVE CaptionLoop(_, _)
CaptionLoop(tracks, acc) ==
    IF tracks = <<>>
    THEN acc
    ELSE LET t == Head(tracks)
         IN  CaptionLoop(Tail(tracks),
                 IF t.is_generated
                 THEN [acc EXCEPT !.auto = Append(@, CaptionInfo(t))]
                 ELSE [acc EXCEPT !.manual = Append(@, CaptionInfo(t))])

NoCaptions == [manual |-> <<>>, auto |-> <<>>]

\* check_available_captions returning what it collected before the failure
check_available_captions_Partial(video_id, q) ==
    CaptionLoop(SubSeq(CaptionService(video_id), 1, q.yielded), NoCaptions)

check_available_captions(video_id, q) ==
    LET partial == CaptionLoop(SubSeq(CaptionService(video_id), 1, q.yielded),
                               NoCaptions)
    IN  IF q.listed /\ ~q.raised
        THEN partial
        ELSE NoCaptions          \* except Exception: return [], []

----------------------------------------------------------------------------
(* extract_transcript *)

\* one st.info / st.warning / st.error / st.success call
Msg(level, what, name, detail) ==
    [level |-> level, what |-> what, language_name |-> name, detail |-> detail]

\* one call to the caption service, made for the pos-th selected track
Call(pos, op, t) == [pos |-> pos, op |-> op, transcript |-> t]

\* an entry of st.session_state.available_transcripts
CatalogEntry(t) ==
    [lang |-> t.language_code, language_name |-> t.language,
     is_generated |-> t.is_generated, transcript |-> t]

\* the dict built for the i-th entry (i counted from 0) of a fetched transcript
TranscriptEntry(video_id, selected, entry, i) ==
    LET start_time == entry.start
        duration   == IF "duration" \in DOMAIN entry THEN entry.duration ELSE 0
        end_time   == start_time + duration
    IN  [video_id           |-> video_id,
         start_time_seconds |-> start_time,
         end_time_seconds   |-> end_time,
         start_time         |-> Round1(start_time),
         end_time           |-> Round1(end_time),
         timestamp          |-> format_time(start_time),
         end_timestamp      |-> format_time(end_time),
         duration           |-> Round1(duration),
         text               |-> Strip(entry.text),
         youtube_link       |-> [watch |-> video_id, t |-> IntSeconds(start_time)],
         language           |-> selected.lang,
         language_name      |-> selected.language_name,
         caption_type       |-> IF selected.is_generated THEN "Auto-generated"
                                                         ELSE "Manual",
         segment_number     |-> i + 1]

\* ProcessTranscript with the segments counted from 2
ProcessTranscript_CountFromTwo(video_id, selected, transcript) ==
    [k \in 1..Len(transcript) |->
        TranscriptEntry(video_id, selected, transcript[k], k)]

\* the "Process the transcript" loop
ProcessTranscript(video_id, selected, transcript) ==
    [k \in 1..Len(transcript) |->
        TranscriptEntry(video_id, selected, transcript[k], k - 1)]

\* "Method 2", entered after the direct fetch failed: translate to English
\* and fetch that, unless the track is English already; whatever fails is
\* caught as e2, reported with the message of the first error, and the
\* track is left (`continue`).
Fallback(pos, selected, o) ==
    LET t       == selected.transcript
        failed  == <<Msg("error", "could_not_extract", selected.language_name,
                         o.direct)>>
        trying  == <<Msg("info", "trying_english_translation", "", "")>>
    IN  IF selected.lang = "en"
        THEN \* raise e
             [transcript |-> <<>>, msgs |-> failed, calls |-> <<>>]
        ELSE IF o.translate # "ok"
        THEN [transcript |-> <<>>, msgs |-> trying \o failed,
              calls |-> <<Call(pos, "translate", t)>>]
        ELSE IF o.fallback # "ok"
        THEN [transcript |-> <<>>, msgs |-> trying \o failed,
              calls |-> <<Call(pos, "translate", t),
                          Call(pos, "fetch", Translate(t, "en"))>>]
        ELSE [transcript |-> FetchEntries(Translate(t, "en")),
              msgs |-> trying
                       \o <<Msg("success", "extracted_via_english", "", "")>>,
              calls |-> <<Call(pos, "translate", t),
                          Call(pos, "fetch", Translate(t, "en"))>>]

\* FetchTrack with the fallback tried after every error of the direct fetch
FetchTrack_AnyError(pos, selected, o) ==
    LET direct == <<Call(pos, "fetch", selected.transcript)>>
        warned == <<Msg("warning", "first_attempt_failed",
                        selected.language_name, "")>>
        fb     == Fallback(pos, selected, o)
    IN  IF o.direct = "ok"
        THEN [transcript |-> FetchEntries(selected.transcript),
              msgs |-> <<>>, calls |-> direct]
        ELSE [transcript |-> fb.transcript, msgs |-> warned \o fb.msgs,
              calls |-> direct \o fb.calls]

\* What the inner try/except leaves behind for one selected track: the
\* transcript (<<>> stands for None as well: both are falsy), and the
\* messages shown and service calls made on the way.
FetchTrack(pos, selected, o) ==
    LET direct == <<Call(pos, "fetch", selected.transcript)>>
        warned == <<Msg("warning", "first_attempt_failed",
                        selected.language_name, "")>>
        fb     == Fallback(pos, selected, o)
    IN  IF o.direct = "ok"
        THEN [transcript |-> FetchEntries(selected.transcript),
              msgs |-> <<>>, calls |-> direct]
        ELSE IF ~HasNoElementFound(o.direct)
        THEN \* the except clause does nothing: transcript stays None
             [transcript |-> <<>>, msgs |-> <<>>, calls |-> direct]
        ELSE [transcript |-> fb.transcript, msgs |-> warned \o fb.msgs,
              calls |-> direct \o fb.calls]

\* the for loop over selected_transcripts, from position pos on; an index
\* outside the catalog raises IndexError, which the outer except turns into
\* an error message and the return value []
RECURSIVE ExtractLoop(_, _, _, _, _, _)
ExtractLoop(video_id, catalog, selected_transcripts, outcomes, pos, acc) ==
    IF pos > Len(selected_transcripts)
    THEN acc
    ELSE LET selected_index == selected_transcripts[pos]
         IN  IF selected_index + 1 \notin 1..Len(catalog)
             THEN [rows  |-> <<>>,
                   msgs  |-> Append(acc.msgs,
                                Msg("error", "error_extracting", "",
                                    "list index out of range")),
                   calls |-> acc.calls]
             ELSE LET selected == catalog[selected_index + 1]
                      f == FetchTrack(pos, selected, outcomes[pos])
                      info == <<Msg("info", "extracting",
                                    selected.language_name, "")>>
                  IN  ExtractLoop(video_id, catalog, selected_transcripts,
                          outcomes, pos + 1,
                          [rows  |-> acc.rows \o
                                     ProcessTranscript(video_id, selected,
                                                       f.transcript),
                           msgs  |-> acc.msgs \o info \o f.msgs,
                           calls |-> acc.calls \o f.calls])

\* extract_transcript giving up the whole request once a track was reported
\* as failed
extract_transcript_AbortOnError(video_id, catalog, selected_transcripts, outcomes) ==
    LET r == ExtractLoop(video_id, catalog, selected_transcripts, outcomes, 1,
                         [rows |-> <<>>, msgs |-> <<>>, calls |-> <<>>])
    IN  IF \E i \in 1..Len(r.msgs) : r.msgs[i].level = "error"
        THEN [r EXCEPT !.rows = <<>>]
        ELSE r

\* returns the rows; msgs and calls are its effects on the page and on the
\* caption service
extract_transcript(video_id, catalog, selected_transcripts, outcomes) ==
    ExtractLoop(video_id, catalog, selected_transcripts, outcomes, 1,
                [rows |-> <<>>, msgs |-> <<>>, calls |-> <<>>])

----------------------------------------------------------------------------
(* save_transcript_options *)

TitleMaxLen == 50

MaxJoinedLanguages == 3

Range(s) == {s[i] : i \in 1..Len(s)}

\* datetime.now().strftime("%Y%m%d_%H%M%S"): the reading of the clock is
\* kept as the time of generation, whatever it is
GenerationTime == "%Y%m%d_%H%M%S"

\* f"{prefix}_{language_str}_{video_title_clean}_{timestamp}.csv"; the
\* joined languages are kept as a set: list(set(...)) fixes no order
Filename(prefix, transcript_data, video_title) ==
    LET languages == {item.language : item \in Range(transcript_data)}
    IN  [prefix    |-> prefix,
         languages |-> IF Cardinality(languages) <= MaxJoinedLanguages
                       THEN languages
                       ELSE {Cardinality(languages)},
         title     |-> Prefix(ReplaceSpaces(video_title), TitleMaxLen),
         timestamp |-> GenerationTime]

FullColumns ==
    {"video_id", "timestamp", "end_timestamp", "start_time", "end_time",
     "duration", "text", "youtube_link", "language", "language_name",
     "caption_type", "segment_number"}

\* a row of df.reindex(columns=[col for col in full_columns if col in df.columns])
FullRow(item) == [col \in FullColumns \cap DOMAIN item |-> item[col]]

SimpleRow(item) ==
    [timestamp |-> item.timestamp, language |-> item.language_name,
     text |-> item.text, youtube_link |-> item.youtube_link,
     video_id |-> item.video_id]

TimelineRow(item) ==
    [time |-> item.timestamp, language |-> item.language_name,
     text |-> item.text]

\* one st.download_button: its key, file name and the data rows of its CSV
Download(key, file_name, data) ==
    [key |-> key, file_name |-> file_name, mime |-> "text/csv", data |-> data]

\* the three columns of download buttons
SaveDownloads(transcript_data, video_title) ==
    <<Download("download_full_csv",
          Filename("full_transcript", transcript_data, video_title),
          [k \in 1..Len(transcript_data) |-> FullRow(transcript_data[k])]),
      Download("download_simple_csv",
          Filename("simple_transcript", transcript_data, video_title),
          [k \in 1..Len(transcript_data) |-> SimpleRow(transcript_data[k])]),
      Download("download_timeline_csv",
          Filename("timeline", transcript_data, video_title),
          [k \in 1..Len(transcript_data) |-> TimelineRow(transcript_data[k])])>>

\* save_transcript_options without the test for an empty row list
save_transcript_options_NoGuard(transcript_data, video_title) ==
    [ret |-> "None", msgs |-> <<>>,
     downloads |-> SaveDownloads(transcript_data, video_title)]

\* ret is the return value (None on both paths: the function has no other
\* return statement), downloads the buttons it put on the page
save_transcript_options(transcript_data, video_title) ==
    IF transcript_data = <<>>
    THEN [ret |-> "None",
          msgs |-> <<Msg("warning", "no_transcript_data", "", "")>>,
          downloads |-> <<>>]
    ELSE [ret |-> "None", msgs |-> <<>>,
          downloads |-> SaveDownloads(transcript_data, video_title)]

----------------------------------------------------------------------------
(* main: one rerun of the script *)

\* what the user can type into the text input
Urls ==
    {<<>>,
     <<"v", "=", "A">>,
     <<"w", "?", "v", "=", "A", "&", "t", "=", "5">>,
     YOUTU_BE \o <<"B", "?", "t">>,
     <<"C">>}

\* the values st.multiselect can return for n options: the chosen indices
\* (from 0), each at most once, in the order they were chosen
Selections(n) ==
    {s \in UNION {[1..m -> 0..(n - 1)] : m \in 0..n} :
        \A i, j \in 1..Len(s) : i # j => s[i] # s[j]}

NoRequest == [selected |-> <<>>, outcomes |-> <<>>]

\* f"video_{video_id}"
VideoTitle(video_id) == <<"v", "i", "d", "e", "o", "_">> \o video_id

\* the catalog built by the second listing of the "check captions" branch
StoreAvailable(video_id, q, before) ==
    IF ~q.listed
    THEN before        \* list_transcripts raised before the catalog was reset
    ELSE [k \in 1..q.yielded |-> CatalogEntry(CaptionService(video_id)[k])]

\* ResetIfChanged without the reset
ResetIfChanged_Keep(video_id, stored) == stored

\* the session state is reset when the video changed
ResetIfChanged(video_id, stored) ==
    IF current_video_id # video_id THEN <<>> ELSE stored

NothingSaved == [ret |-> "None", msgs |-> <<>>, downloads |-> <<>>]

\* One run of main() with the text input holding url and the button
\* pressed ("check", "extract" or "none"); q1, q2 answer the listings of the
\* check branch, selected and outcomes feed extract_transcript.
MainBody(action, url, pressed, q1, q2, selected, outcomes, video_id, ex) ==
    LET catalog0  == ResetIfChanged(video_id, available_transcripts)
        data0     == ResetIfChanged(video_id, extracted_data)
        checked   == IF pressed = "check"
                     THEN check_available_captions(video_id, q1)
                     ELSE NoCaptions
        isFound   == checked.manual # <<>> \/ checked.auto # <<>>
        catalog1  == IF isFound THEN StoreAvailable(video_id, q2, catalog0)
                     ELSE catalog0
        checkMsgs ==
            IF pressed # "check" THEN <<>>
            ELSE IF isFound
            THEN <<Msg("success", "captions_found", "", "")>>
                 \o (IF q2.raised
                     THEN <<Msg("error", "error_getting_details", "", "")>>
                     ELSE <<>>)
            ELSE <<Msg("error", "no_captions_found", "", "")>>
        extracting == pressed = "extract" /\ catalog1 # <<>> /\ selected # <<>>
        data1     == IF extracting /\ ex.rows # <<>> THEN ex.rows ELSE data0
        exMsgs    == IF extracting /\ ex.rows = <<>>
                     THEN <<Msg("error", "could_not_extract_video", "", "")>>
                     ELSE <<>>
        saved     == IF data1 # <<>>
                     THEN save_transcript_options(data1, VideoTitle(video_id))
                     ELSE NothingSaved
        shown     == IF data1 # <<>>
                     THEN <<Msg("success", "extracted_segments", "", "")>>
                     ELSE <<>>
    IN  /\ video_url' = url
        /\ last_action' = action
        /\ IF url = <<>>
           THEN /\ UNCHANGED <<current_video_id, available_transcripts,
                               extracted_data>>
                /\ invalidated' = FALSE
                /\ found' = FALSE
                /\ caps' = NoCaptions
                /\ query' = <<NoQuery, NoQuery>>
                /\ request' = NoRequest
                /\ extract_ret' = <<>>
                /\ calls' = <<>>
                /\ messages' = <<>>
                /\ downloads' = <<>>
           ELSE /\ current_video_id' = video_id
                /\ available_transcripts' = catalog1
                /\ extracted_data' = data1
                /\ invalidated' = (/\ current_video_id # video_id
                                   /\ \/ available_transcripts # <<>>
                                      \/ extracted_data # <<>>)
                /\ found' = isFound
                /\ caps' = checked
                /\ query' = IF pressed = "check"
                            THEN <<q1, IF isFound THEN q2 ELSE NoQuery>>
                            ELSE <<NoQuery, NoQuery>>
                /\ request' = IF extracting
                              THEN [selected |-> selected, outcomes |-> outcomes]
                              ELSE NoRequest
                /\ extract_ret' = ex.rows
                /\ calls' = ex.calls
                /\ messages' = <<Msg("info", "video_id", "", "")>> \o checkMsgs
                               \o ex.msgs \o exMsgs \o shown \o saved.msgs
                /\ downloads' = saved.downloads

Main(action, url, pressed, q1, q2, selected, outcomes) ==
    \E video_id \in {extract_video_id(url)} :
      \E ex \in {IF pressed = "extract"
                  THEN extract_transcript(video_id,
                           ResetIfChanged(video_id, available_transcripts),
                           selected, outcomes)
                  ELSE [rows |-> <<>>, msgs |-> <<>>, calls |-> <<>>]} :
         MainBody(action, url, pressed, q1, q2, selected, outcomes, video_id, ex)

\* the user types a URL (or clears the input)
EnterUrl ==
    /\ \E url \in Urls :
          Main("url", url, "none", NoQuery, NoQuery, <<>>, <<>>)
    /\ UNCHANGED <<vidVars, saveVars>>

\* the user presses "Check Available Captions"
CheckCaptions ==
    /\ video_url # <<>>
    /\ \E q1, q2 \in ListOutcomes(extract_video_id(video_url)) :
          Main("check", video_url, "check", q1, q2, <<>>, <<>>)
    /\ UNCHANGED <<vidVars, saveVars>>

\* the user presses "Extract Selected Transcripts", which is on the page
\* only while the catalog and the selection are not empty
ExtractSelected ==
    /\ video_url # <<>>
    /\ available_transcripts # <<>>
    /\ \E selected \in Selections(Len(available_transcripts)) \ {<<>>} :
          \E outcomes \in [1..Len(selected) -> TrackOutcomes] :
             Main("extract", video_url, "extract", NoQuery, NoQuery,
                  selected, outcomes)
    /\ UNCHANGED <<vidVars, saveVars>>

\* the user presses one of the download buttons: the script reruns
DownloadCsv ==
    /\ downloads # <<>>
    /\ Main("download", video_url, "none", NoQuery, NoQuery, <<>>, <<>>)
    /\ UNCHANGED <<vidVars, saveVars>>

NotCalled == [called |-> FALSE, value |-> <<>>]

NotSaved == [called |-> FALSE, ret |-> "None", downloads |-> <<>>, msgs |-> <<>>]

SessionInit ==
    /\ video_url = <<>>
    /\ current_video_id = <<>>
    /\ available_transcripts = <<>>
    /\ extracted_data = <<>>
    /\ last_action = "init"
    /\ invalidated = FALSE
    /\ found = FALSE
    /\ caps = NoCaptions
    /\ query = <<NoQuery, NoQuery>>
    /\ request = NoRequest
    /\ extract_ret = <<>>
    /\ calls = <<>>
    /\ messages = <<>>
    /\ downloads = <<>>

Init ==
    /\ SessionInit
    /\ url_in = <<>>
    /\ vid_out = NotCalled
    /\ rows_in = <<>>
    /\ save_out = NotSaved

Next == EnterUrl \/ CheckCaptions \/ ExtractSelected \/ DownloadCsv

Spec == Init /\ [][Next]_vars

----------------------------------------------------------------------------
(* extract_video_id called on its own *)

UrlPieces == {<<"v">>, <<"=">>, <<"&">>, <<"?">>, <<"a">>, YOUTU_BE}

RECURSIVE Concat(_)
Concat(pieces) ==
    IF pieces = <<>> THEN <<>> ELSE Head(pieces) \o Concat(Tail(pieces))

UrlInputs ==
    {Concat(p) : p \in UNION {[1..n -> UrlPieces] : n \in 0..MaxPieces}}

InitVid ==
    /\ SessionInit
    /\ url_in \in UrlInputs
    /\ vid_out = NotCalled
    /\ rows_in = <<>>
    /\ save_out = NotSaved

CallExtractVideoId ==
    /\ ~vid_out.called
    /\ vid_out' = [called |-> TRUE, value |-> extract_video_id(url_in)]
    /\ UNCHANGED <<sessionVars, url_in, saveVars>>

NextVid == CallExtractVideoId

SpecVid == InitVid /\ [][NextVid]_vars

----------------------------------------------------------------------------
(* save_transcript_options called on its own *)

\* rows as extract_transcript builds them
RowPool ==
    UNION {Range(ProcessTranscript(t.video_id, CatalogEntry(t), FetchEntries(t)))
           \cup Range(ProcessTranscript(t.video_id, CatalogEntry(t),
                                        FetchEntries(Translate(t, "en")))) :
             t \in Range(CaptionService(VID_A)) \cup Range(CaptionService(VID_B))}

RowInputs == UNION {[1..n -> RowPool] : n \in 0..MaxRows}

\* video_title="Unknown"
DefaultTitle == <<"U", "n", "k", "n", "o", "w", "n">>

InitSave ==
    /\ SessionInit
    /\ url_in = <<>>
    /\ vid_out = NotCalled
    /\ rows_in \in RowInputs
    /\ save_out = NotSaved

CallSaveTranscriptOptions ==
    /\ ~save_out.called
    /\ LET s == save_transcript_options(rows_in, DefaultTitle)
       IN  save_out' = [called |-> TRUE, ret |-> s.ret,
                        downloads |-> s.downloads, msgs |-> s.msgs]
    /\ UNCHANGED <<sessionVars, vidVars, rows_in>>

NextSave == CallSaveTranscriptOptions

SpecSave == InitSave /\ [][NextSave]_vars

----------------------------------------------------------------------------
(* Properties of the session (Spec) *)

\* the rows the tracks of a video can give, fetched directly or through
\* the English translation
RowsOfVideo(vid) ==
    UNION {Range(ProcessTranscript(vid, CatalogEntry(t), FetchEntries(t)))
           \cup Range(ProcessTranscript(vid, CatalogEntry(t),
                                        FetchEntries(Translate(t, "en")))) :
             t \in Range(CaptionService(vid))}

\* C1: every track of the session catalog and every row of the session
\* result set, and every row offered for download, belongs to the current
\* video identifier, which is the one of the URL on the page.
C1_SessionOfCurrentVideo ==
    /\ video_url # <<>> => current_video_id = extract_video_id(video_url)
    /\ \A e \in Range(available_transcripts) :
          e.transcript.video_id = current_video_id
    /\ \A r \in Range(extracted_data) :
          r.video_id = current_video_id /\ r \in RowsOfVideo(current_video_id)
    /\ \A d \in Range(downloads) :
          /\ d.file_name.title = VideoTitle(current_video_id)
          /\ Len(d.data) = Len(extracted_data)
          /\ \A k \in 1..Len(d.data) : d.data[k].text = extracted_data[k].text

\* C1 witness: the user went from one video, for which a catalog or rows
\* were stored, to video B, and the session holds nothing of the old one
C1_Witness ==
    /\ invalidated
    /\ current_video_id = VID_B
    /\ available_transcripts = <<>>
    /\ extracted_data = <<>>
    /\ downloads = <<>>

\* the pos-th selected track of the last extraction request
SelectedTrack(pos) == available_transcripts[request.selected[pos] + 1]

GivenOutcome(pos) == request.outcomes[pos]

\* the service was asked to translate / to fetch the translation of the
\* pos-th selected track this many times
TranslateCalls(pos) ==
    Cardinality({i \in 1..Len(calls) :
                    calls[i].pos = pos /\ calls[i].op = "translate"})

FallbackFetches(pos) ==
    Cardinality({i \in 1..Len(calls) :
                    /\ calls[i].pos = pos
                    /\ calls[i].op = "fetch"
                    /\ calls[i].transcript.tlang # ""})

DirectSucceeded(pos) == GivenOutcome(pos).direct = "ok"

FallbackSucceeded(pos) ==
    /\ ~DirectSucceeded(pos)
    /\ FallbackFetches(pos) > 0
    /\ GivenOutcome(pos).fallback = "ok"

TrackSucceeded(pos) == DirectSucceeded(pos) \/ FallbackSucceeded(pos)

\* the raw entries the service delivered for the pos-th selected track
DeliveredEntries(pos) ==
    IF DirectSucceeded(pos)
    THEN FetchEntries(SelectedTrack(pos).transcript)
    ELSE FetchEntries(Translate(SelectedTrack(pos).transcript, "en"))

RowsOfLanguage(rows, code) == SelectSeq(rows, LAMBDA r : r.language = code)

\* C2: a failing track never aborts the request: the returned rows hold all
\* rows of every selected track whose direct or fallback fetch succeeded
\* and no row of a track that failed.
C2_FailureIsolated ==
    last_action = "extract" =>
        /\ \A i \in 1..Len(messages) : messages[i].what # "error_extracting"
        /\ \A pos \in 1..Len(request.selected) :
              RowsOfLanguage(extract_ret, SelectedTrack(pos).lang) =
                 IF TrackSucceeded(pos)
                 THEN ProcessTranscript(current_video_id, SelectedTrack(pos),
                                        DeliveredEntries(pos))
                 ELSE <<>>

\* C2 witness: the first selected track failed with an error other than the
\* parse error and the second one was extracted
C2_Witness ==
    /\ last_action = "extract"
    /\ Len(request.selected) = 2
    /\ GivenOutcome(1).direct = DISABLED
    /\ GivenOutcome(2).direct = "ok"
    /\ Len(extract_ret) = NumEntries

\* C3 as claimed: whenever the direct fetch of a selected track whose
\* language is not 'en' fails, exactly one fallback is attempted.
C3_Original ==
    last_action = "extract" =>
        \A pos \in 1..Len(request.selected) :
            (~DirectSucceeded(pos) /\ SelectedTrack(pos).lang # "en")
                => TranslateCalls(pos) = 1

\* C3 amended: one fallback (one translate('en'), then one fetch of the
\* translation if the translation was made) is attempted exactly when the
\* direct fetch fails with the "no element found" error and the language is
\* not 'en'; otherwise none; never more than one per track.
C3_OneFallbackOnParseError ==
    last_action = "extract" =>
        \A pos \in 1..Len(request.selected) :
            LET eligible == /\ GivenOutcome(pos).direct = NO_ELEMENT
                            /\ SelectedTrack(pos).lang # "en"
            IN  /\ TranslateCalls(pos) = IF eligible THEN 1 ELSE 0
                /\ FallbackFetches(pos) =
                      IF eligible /\ GivenOutcome(pos).translate = "ok"
                      THEN 1 ELSE 0

\* C3 witness: a Spanish track failed with the parse error, its one fallback
\* fetch failed too and the track was given up
C3_Witness ==
    /\ last_action = "extract"
    /\ \E pos \in 1..Len(request.selected) :
          /\ SelectedTrack(pos).lang = "es"
          /\ GivenOutcome(pos).direct = NO_ELEMENT
          /\ GivenOutcome(pos).fallback = DISABLED
          /\ FallbackFetches(pos) = 1
          /\ ~TrackSucceeded(pos)

BlockLen(pos) == IF TrackSucceeded(pos) THEN Len(DeliveredEntries(pos)) ELSE 0

\* rows returned for the selected tracks before the pos-th
RECURSIVE Offset(_)
Offset(pos) == IF pos = 1 THEN 0 ELSE Offset(pos - 1) + BlockLen(pos - 1)

\* C4: the returned rows are one block per successfully fetched track, in
\* selection order; a block follows the raw entries' order and numbers its
\* segments 1, 2, ..., N.
C4_BlocksInSelectionOrder ==
    last_action = "extract" =>
        /\ Len(extract_ret) = Offset(Len(request.selected) + 1)
        /\ \A pos \in 1..Len(request.selected) :
              \A k \in 1..BlockLen(pos) :
                 LET row == extract_ret[Offset(pos) + k]
                 IN  /\ row.language = SelectedTrack(pos).lang
                     /\ row.segment_number = k
                     /\ row.start_time_seconds = DeliveredEntries(pos)[k].start

\* C4 witness: the second track of the catalog was selected before the
\* first, both were fetched, and the second track's block comes first
C4_Witness ==
    /\ last_action = "extract"
    /\ request.selected = <<1, 0>>
    /\ TrackSucceeded(1) /\ TrackSucceeded(2)
    /\ Len(extract_ret) = 2 * NumEntries
    /\ extract_ret[1].language = "es"
    /\ extract_ret[NumEntries].start_time_seconds
          > extract_ret[NumEntries + 1].start_time_seconds

\* C5 as claimed: after an extraction request the stored result set is the
\* rows that extraction returned.
C5_ReplacedByEveryExtraction ==
    last_action = "extract" => extracted_data = extract_ret

\* the partition of the service's tracks by the auto-generated flag
CaptionsOfType(vid, generated) ==
    LET tracks == SelectSeq(CaptionService(vid),
                            LAMBDA t : t.is_generated = generated)
    IN  [k \in 1..Len(tracks) |-> CaptionInfo(tracks[k])]

C8_EverySkipReported ==
    last_action = "extract" =>
        \A pos \in 1..Len(request.selected) :
            ~TrackSucceeded(pos) =>
                \E i \in 1..Len(messages) :
                    /\ messages[i].level = "error"
                    /\ messages[i].language_name = SelectedTrack(pos).language_name
                    /\ messages[i].detail = GivenOutcome(pos).direct

\* C10 as claimed: when "Captions found!" is shown, the catalog holds
\* exactly the tracks the service lists for the video, in its order.
C10_FoundMeansCatalogStored ==
    (last_action = "check" /\ found) =>
        available_transcripts =
            [k \in 1..Len(CaptionService(current_video_id)) |->
                CatalogEntry(CaptionService(current_video_id)[k])]

----------------------------------------------------------------------------
(* Properties of extract_video_id (SpecVid) *)

\* positions of s, counted from 1, where sep occurs
Occurrences(s, sep) == {i \in 1..Len(s) : OccursAt(s, sep, i)}

Min(S) == CHOOSE x \in S : \A y \in S : x <= y

\* what follows the first 'v=' of url
AfterFirstVEq(url) == SubSeq(url, Min(Occurrences(url, V_EQ)) + 2, Len(url))

\* s up to the first position in stops, or all of s
UpTo(s, stops) == IF stops = {} THEN s ELSE SubSeq(s, 1, Min(stops) - 1)

\* C6 as claimed: for an input with 'v=' the result is what lies between
\* the first 'v=' and the next '&' or the end; an input with neither marker
\* is returned unchanged.
C6_Original ==
    vid_out.called =>
        IF Contains(url_in, V_EQ)
        THEN vid_out.value =
                UpTo(AfterFirstVEq(url_in),
                     Occurrences(AfterFirstVEq(url_in), <<"&">>))
        ELSE Contains(url_in, YOUTU_BE) \/ vid_out.value = url_in

\* C6 amended: for an input with 'v=' the result is what lies between the
\* first 'v=' and the next '&', the next 'v=' or the end, whichever comes
\* first; an input with neither marker is returned unchanged.
C6_UpToAmpersandOrMarker ==
    vid_out.called =>
        IF Contains(url_in, V_EQ)
        THEN vid_out.value =
                UpTo(AfterFirstVEq(url_in),
                     Occurrences(AfterFirstVEq(url_in), <<"&">>)
                     \cup Occurrences(AfterFirstVEq(url_in), V_EQ))
        ELSE Contains(url_in, YOUTU_BE) \/ vid_out.value = url_in

\* C6 witness: the identifier was cut out between 'v=' and '&'
C6_Witness ==
    /\ vid_out.called
    /\ url_in = <<"v", "=", "a", "&">>
    /\ vid_out.value = <<"a">>

----------------------------------------------------------------------------
(* Properties of save_transcript_options (SpecSave) *)

\* C9: for an empty row list save_transcript_options returns None and
\* offers no download; for a non-empty one it offers exactly the full,
\* simple and timeline payloads, each with one data row per input row in
\* input order.
C9_ThreePayloadsOrNone ==
    save_out.called =>
        IF rows_in = <<>>
        THEN save_out.ret = "None" /\ save_out.downloads = <<>>
        ELSE /\ [k \in 1..Len(save_out.downloads) |-> save_out.downloads[k].key]
                  = <<"download_full_csv", "download_simple_csv",
                      "download_timeline_csv">>
             /\ \A d \in Range(save_out.downloads) :
                   /\ Len(d.data) = Len(rows_in)
                   /\ \A k \in 1..Len(rows_in) :
                         /\ d.data[k].text = rows_in[k].text
                         /\ d.data[k].language = rows_in[k].language_name
                                \/ d.data[k].language = rows_in[k].language

\* C9 witness: the function was called with no rows and offered nothing
C9_Witness ==
    /\ save_out.called
    /\ rows_in = <<>>
    /\ save_out.downloads = <<>>

====
